---- MODULE Spec2Model ----
(***************************************************************************)
(* The handshake coordinator of convenu: the four serverless handlers      *)
(* api/handshake/{initiate,claim,confirm-tx,mint} acting on the            *)
(* `handshakes` and `user_points` tables, the Solana ledger and the        *)
(* Bubblegum minting tree.  Every handler is a sequence of awaited I/O     *)
(* calls; one action of the model is one awaited call on shared state      *)
(* together with the synchronous code that follows it, so concurrent       *)
(* requests interleave exactly where the handlers suspend.                 *)
(***************************************************************************)
EXTENDS Integers, Sequences, FiniteSets, TLC

\* ---------------------------------------------------------------- bounds
MaxRecords == 2     \* rows the handshakes table can hold (insert fails beyond)
MaxTime    == 3     \* the clock runs 1..MaxTime
MaxTokens  == 4     \* cNFTs the tree can hold (mintV1 fails beyond)
Procs      == {"p1", "p2"}   \* concurrently served requests
MaxJobs    == 2     \* coroutines the view model scope can hold

\* ------------------------------------------------------------- constants
MINT_FEE_LAMPORTS    == 10000000
POINTS_PER_HANDSHAKE == 10
TTL                  == 1
TREASURY_WALLET      == "treasury"

NULL  == "null"      \* SQL NULL / JS undefined for id-like columns
NoStr == << >>       \* NULL or '' for text columns (both falsy in JS)

\* ------------------------------------------------------ text and identity
\* Strings are sequences of one-character strings.
toLowerCase(s) ==
  [i \in 1..Len(s) |->
     CASE s[i] = "B" -> "b"
       [] s[i] = "O" -> "o"
       [] s[i] = "X" -> "x"
       [] OTHER      -> s[i]]

\* String.prototype.replace('@', ''): removes the FIRST '@', wherever it is.
replaceAt(s) ==
  IF \E i \in 1..Len(s) : s[i] = "@"
  THEN LET k == CHOOSE i \in 1..Len(s) :
                  s[i] = "@" /\ \A j \in 1..(i-1) : s[j] # "@"
       IN  SubSeq(s, 1, k-1) \o SubSeq(s, k+1, Len(s))
  ELSE s

Accounts == {"alice", "bob", "rob", "eve"}

\* telegram_links.telegram_username (a snapshot taken when the account was
\* linked; uniqueness is enforced on the Telegram user id, not on this text)
telegram_links ==
  [u \in Accounts |->
     CASE u = "bob" -> <<"B","o","b">>
       [] u = "rob" -> <<"b","o","b">>
       [] u = "eve" -> <<"b","x">>
       [] OTHER     -> NoStr]

\* auth.users.email
authEmail ==
  [u \in Accounts |->
     CASE u = "alice" -> <<"a","@","x">>
       [] u = "bob"   -> <<"b","@","x">>
       [] u = "eve"   -> <<"e","@","x">>
       [] OTHER       -> NoStr]

WalletOf == [u \in Accounts |->
     CASE u = "alice" -> "wA" [] u = "bob" -> "wB"
       [] u = "rob"   -> "wR" [] OTHER     -> "wE"]

\* the contacts table
Contacts == {"c1", "c2", "c3", "c4"}
contacts ==
  [c \in Contacts |->
     CASE c = "c1" -> [user_id |-> "alice", telegram_handle |-> <<"@","b","o","b">>,
                       email |-> NoStr]
       [] c = "c2" -> [user_id |-> "alice", telegram_handle |-> NoStr,
                       email |-> <<"B","@","X">>]
       [] c = "c3" -> [user_id |-> "alice", telegram_handle |-> NoStr,
                       email |-> NoStr]
       [] OTHER    -> [user_id |-> "bob", telegram_handle |-> <<"@","b","o","b">>,
                       email |-> NoStr]]     \* bob's contact card of himself

\* claim.ts: identifierMatch
identifierMatch(userId, receiverId) ==
  LET userTelegram == telegram_links[userId]
      userEmail    == authEmail[userId]
  IN  \/ userTelegram # NoStr
         /\ toLowerCase(replaceAt(receiverId)) = toLowerCase(userTelegram)
      \/ userEmail # NoStr
         /\ toLowerCase(receiverId) = toLowerCase(userEmail)

\* ------------------------------------------------------------ the ledger
\* A transaction is <<payer, destination, lamports>>; its signature identifies
\* it, so a signature is modelled by the transaction it signs.
JunkTx   == <<"wE", "wE", 1>>
NoTx     == << >>
\* the signature of a transaction that landed and whose execution failed:
\* confirmTransaction resolves with value.err set for it
Reverted(tx) == tx \o <<"err">>
isReverted(sig) == Len(sig) = 4
Sides == {"initiator", "receiver"}

\* ------------------------------------------------------------- the state
VARIABLES
  handshakes,    \* the handshakes table: row i has id i
  user_points,   \* the user_points table (append only)
  trust_scores,  \* trust_scores.total_handshakes per account
  nfts,          \* cNFTs minted on the tree: <<owner, handshake>>, index = signature
  now,           \* the clock
  proc,          \* the requests being served
  workload,      \* the traffic mix of this run (fixed at start)
  feeSchedule,   \* the value of MINT_FEE_LAMPORTS in the deployed handlers
  claimed,       \* history: the ids of the rows a claim was answered 200 for
  vm             \* the Android HandshakeViewModel: _actionState and its coroutines

vars == <<handshakes, user_points, trust_scores, nfts, now, proc, workload, feeSchedule,
          claimed, vm>>

\* A run serves one of three traffic mixes, which bound the requests that
\* arrive (the handlers themselves are the same in all three):
\*   "claims"   initiate and claim by anyone, with expiry, over MaxRecords rows
\*   "payments" one handshake between alice and bob, confirm-tx with any
\*              transaction for any side, with expiry
\*   "minting"  one handshake claimed by bob or rob, confirm-tx with the
\*              transaction built for the side, and mint
\*   "fees"     one handshake between alice and bob, initiate and claim, and
\*              a deployment that changes the fee
\*   "listing"  initiate, claim by bob or eve, and the pending list of anyone,
\*              over MaxRecords rows
\*   "android"  the calls made to the HandshakeViewModel of one device
Workloads == {"claims", "payments", "minting", "fees", "listing", "android"}
Initiators == IF workload \in {"claims", "listing"} THEN {"alice", "bob"} ELSE {"alice"}
InitContacts == IF workload \in {"claims", "listing"} THEN Contacts ELSE {"c1"}
Claimers ==
  CASE workload = "claims"   -> Accounts
    [] workload \in {"payments", "fees"} -> {"bob"}
    [] workload = "listing"  -> {"bob", "eve"}
    [] OTHER                 -> {"bob", "rob"}
RecordCap == IF workload \in {"claims", "listing"} THEN MaxRecords ELSE 1
\* SystemProgram.transfer({ fromPubkey, toPubkey: treasuryKey, lamports: MINT_FEE_LAMPORTS })
FeeTx(w) == <<w, TREASURY_WALLET, feeSchedule, claimed>>
\* what a client may post to confirm-tx for a side of a row: the fee transfer
\* built for that side's wallet, or any other transaction the network accepts
SignedTxs(row, side) ==
  LET w == IF side = "initiator" THEN row.initiator_wallet ELSE row.receiver_wallet
  IN  (IF w = NULL THEN {} ELSE {FeeTx(w)})
        \cup (IF workload = "payments" THEN {JunkTx} ELSE {})

\* data class HandshakeActionState (currentAction, a label, is left out)
HandshakeActionState == [isProcessing |-> FALSE, error |-> NULL, success |-> NULL]

NoRow == [id |-> 0, initiator_user_id |-> NULL, receiver_user_id |-> NULL,
          receiver_identifier |-> NoStr, contact_id |-> NULL,
          initiator_wallet |-> NULL, receiver_wallet |-> NULL,
          initiator_tx_signature |-> NoTx, receiver_tx_signature |-> NoTx,
          initiator_minted_at |-> 0, receiver_minted_at |-> 0,
          initiator_nft_address |-> 0, receiver_nft_address |-> 0,
          mint_fee_lamports |-> 0, points_awarded |-> 0,
          status |-> NULL, expires_at |-> 0]

NoRes == [code |-> 0, error |-> NULL, handshakeId |-> 0, status |-> NULL,
          transaction |-> NoTx, txSignature |-> NoTx, side |-> NULL,
          bothPaid |-> FALSE, initiatorNft |-> 0, receiverNft |-> 0,
          pointsAwarded |-> 0, handshakes |-> {}]

\* what mint keeps of the row it fetched
NoView == [initiator_user_id |-> NULL, receiver_user_id |-> NULL,
           initiator_wallet |-> NULL, receiver_wallet |-> NULL]
mintView(row) == [f \in DOMAIN NoView |-> row[f]]

Idle == [pc |-> "idle", op |-> NULL, userId |-> NULL, contactId |-> NULL,
         handshakeId |-> 0, walletAddress |-> NULL, side |-> NULL,
         handshake |-> NoView, txSignature |-> NoTx,
         initiatorNftSig |-> 0, receiverNftSig |-> 0, res |-> NoRes]

Init ==
  /\ handshakes = << >>
  /\ user_points = << >>
  /\ trust_scores = [u \in Accounts |-> 0]
  /\ nfts = << >>
  /\ now = 1
  /\ proc = [p \in Procs |-> Idle]
  /\ workload \in Workloads
  /\ feeSchedule = MINT_FEE_LAMPORTS
  /\ claimed = {}
  /\ vm = [actionState |-> HandshakeActionState, jobs |-> << >>]

\* ------------------------------------------------------- store primitives
Ids == 1..Len(handshakes)

\* supabase .select().eq('id', id).single()
selectById(id) == IF id \in Ids THEN handshakes[id] ELSE NoRow

\* res.status(code).json(body): the request is finished
Respond(p, body) ==
  proc' = [proc EXCEPT ![p] = [@ EXCEPT !.pc = "done", !.res = body]]

Error(code, kind) == [NoRes EXCEPT !.code = code, !.error = kind]


\* ------------------------------------------------ POST /api/handshake/initiate
\* .eq(initiator_user_id).eq(contact_id).in(status, [...]).single():
\* the row when exactly one row matches, no data otherwise
existingFor(userId, contactId) ==
  LET hit == {i \in Ids : /\ handshakes[i].initiator_user_id = userId
                          /\ handshakes[i].contact_id = contactId
                          /\ handshakes[i].status \in {"pending", "matched", "minted"}}
  IN  IF Cardinality(hit) = 1 THEN handshakes[CHOOSE i \in hit : TRUE] ELSE NoRow

\* contact.telegram_handle || contact.email
receiverIdentifierOf(contactId) ==
  IF contacts[contactId].telegram_handle # NoStr
  THEN contacts[contactId].telegram_handle
  ELSE contacts[contactId].email

\* the row initiate inserts; expires_at is the column default of the table
newHandshake(id, userId, contactId, walletAddress) ==
  [NoRow EXCEPT !.id = id,
                !.initiator_user_id = userId,
                !.receiver_identifier = receiverIdentifierOf(contactId),
                !.contact_id = contactId,
                !.initiator_wallet = walletAddress,
                !.mint_fee_lamports = feeSchedule,
                !.status = "pending",
                !.expires_at = now + TTL]

\* the request arrives; contact lookup, identifier, duplicate check
InitiateCheck(p) ==
  /\ proc[p].pc = "idle"
  /\ workload # "android"
  /\ \E userId \in Initiators, contactId \in InitContacts :
       LET me == [Idle EXCEPT !.op = "initiate", !.userId = userId,
                              !.contactId = contactId,
                              !.walletAddress = WalletOf[userId]]
           existing == existingFor(userId, contactId)
       IN  IF contacts[contactId].user_id # userId
           THEN proc' = [proc EXCEPT ![p] =
                  [me EXCEPT !.pc = "done", !.res = Error(404, "InvalidCounterparty")]]
           ELSE IF receiverIdentifierOf(contactId) = NoStr
           THEN proc' = [proc EXCEPT ![p] =
                  [me EXCEPT !.pc = "done", !.res = Error(400, "InvalidCounterparty")]]
           ELSE IF existing # NoRow
           THEN proc' = [proc EXCEPT ![p] =
                  [me EXCEPT !.pc = "done",
                             !.res = [Error(409, "DuplicateHandshake") EXCEPT
                                        !.handshakeId = existing.id,
                                        !.status = existing.status]]]
           ELSE proc' = [proc EXCEPT ![p] = [me EXCEPT !.pc = "initiate_insert"]]
  /\ UNCHANGED <<handshakes, user_points, trust_scores, nfts, now, workload, feeSchedule, claimed, vm>>

\* insert the row, build the unsigned fee transaction, answer
InitiateInsert(p) ==
  /\ proc[p].pc = "initiate_insert"
  /\ LET id == Len(handshakes) + 1
         me == proc[p]
     IN  \/ /\ id <= RecordCap
            /\ handshakes' = Append(handshakes,
                 newHandshake(id, me.userId, me.contactId, me.walletAddress))
            /\ \/ Respond(p, [NoRes EXCEPT !.code = 200, !.handshakeId = id,
                                !.transaction = FeeTx(me.walletAddress)])
               \/ Respond(p, Error(500, "Failed"))     \* getLatestBlockhash throws
         \/ /\ id > RecordCap                           \* hsError
            /\ Respond(p, Error(500, "Failed"))
            /\ UNCHANGED handshakes
  /\ UNCHANGED <<user_points, trust_scores, nfts, now, workload, feeSchedule, claimed, vm>>

\* --------------------------------------------------- POST /api/handshake/claim
\* (mutant: the comparison of the expiry check reversed)
isExpired_Reversed(row) == row.expires_at > now

\* new Date(handshake.expires_at) < new Date()
isExpired(row) == row.expires_at < now

\* (mutant: the identity check left out)
claimChecks_NoIdentity(handshake, userId) ==
  IF handshake = NoRow                                  THEN "NotFound"
  ELSE IF handshake.status # "pending"                  THEN "InvalidState"
  ELSE IF handshake.initiator_user_id = userId          THEN "SelfClaim"
  ELSE IF isExpired(handshake)                          THEN "claim_expire"
  ELSE "claim_update"

\* (mutant: the identity check made before the status check)
claimChecks_IdentityFirst(handshake, userId) ==
  IF handshake = NoRow                                  THEN "NotFound"
  ELSE IF ~identifierMatch(userId, handshake.receiver_identifier)
                                                        THEN "NotAuthorized"
  ELSE IF handshake.status # "pending"                  THEN "InvalidState"
  ELSE IF handshake.initiator_user_id = userId          THEN "SelfClaim"
  ELSE IF isExpired(handshake)                          THEN "claim_expire"
  ELSE "claim_update"

\* (mutant: the self-claim check left out)
claimChecks_NoSelfCheck(handshake, userId) ==
  IF handshake = NoRow                                  THEN "NotFound"
  ELSE IF handshake.status # "pending"                  THEN "InvalidState"
  ELSE IF isExpired(handshake)                          THEN "claim_expire"
  ELSE IF ~identifierMatch(userId, handshake.receiver_identifier)
                                                        THEN "NotAuthorized"
  ELSE "claim_update"

\* the checks of claim on the fetched row, in the handler's order; the result
\* is the failure answered, or the write the handler goes on to
claimChecks(handshake, userId) ==
  IF handshake = NoRow                                  THEN "NotFound"
  ELSE IF handshake.status # "pending"                  THEN "InvalidState"
  ELSE IF handshake.initiator_user_id = userId          THEN "SelfClaim"
  ELSE IF isExpired(handshake)                          THEN "claim_expire"
  ELSE IF ~identifierMatch(userId, handshake.receiver_identifier)
                                                        THEN "NotAuthorized"
  ELSE "claim_update"

claimErrorCode(kind) ==
  CASE kind = "NotFound"     -> 404
    [] kind = "InvalidState" -> 409
    [] kind = "SelfClaim"    -> 400
    [] OTHER                 -> 403

\* the request arrives; fetch the row, then every check up to the update
ClaimFetch(p) ==
  /\ proc[p].pc = "idle"
  /\ workload # "android"
  /\ \E handshakeId \in 1..RecordCap, userId \in Claimers :
       LET handshake == selectById(handshakeId)
           me == [Idle EXCEPT !.op = "claim", !.userId = userId,
                              !.handshakeId = handshakeId,
                              !.walletAddress = WalletOf[userId]]
           next == claimChecks(handshake, userId)
       IN  IF next \in {"claim_expire", "claim_update"}
           THEN proc' = [proc EXCEPT ![p] = [me EXCEPT !.pc = next]]
           ELSE proc' = [proc EXCEPT ![p] =
                  [me EXCEPT !.pc = "done",
                             !.res = [Error(claimErrorCode(next), next) EXCEPT
                                        !.status = IF next = "InvalidState"
                                                   THEN handshake.status ELSE NULL]]]
  /\ UNCHANGED <<handshakes, user_points, trust_scores, nfts, now, workload, feeSchedule, claimed, vm>>

\* (mutant: the expiry update also rewrites expires_at)
ClaimExpire_RewritesExpiry(p) ==
  /\ proc[p].pc = "claim_expire"
  /\ handshakes' = [handshakes EXCEPT ![proc[p].handshakeId] =
                      [@ EXCEPT !.status = "expired", !.expires_at = now]]
  /\ Respond(p, Error(410, "Expired"))
  /\ UNCHANGED <<user_points, trust_scores, nfts, now, workload, feeSchedule, claimed, vm>>

\* .update({ status: 'expired' }).eq('id', handshakeId), then 410
ClaimExpire(p) ==
  /\ proc[p].pc = "claim_expire"
  /\ handshakes' = [handshakes EXCEPT ![proc[p].handshakeId].status = "expired"]
  /\ Respond(p, Error(410, "Expired"))
  /\ UNCHANGED <<user_points, trust_scores, nfts, now, workload, feeSchedule, claimed, vm>>

\* .update({ receiver_user_id, receiver_wallet, status: 'matched' }).eq('id', ...),
\* then the unsigned fee transaction and the answer
ClaimUpdate(p) ==
  /\ proc[p].pc = "claim_update"
  /\ LET me == proc[p]
     IN  /\ handshakes' = [handshakes EXCEPT ![me.handshakeId] =
                             [@ EXCEPT !.receiver_user_id = me.userId,
                                       !.receiver_wallet = me.walletAddress,
                                       !.status = "matched"]]
         /\ \/ /\ Respond(p, [NoRes EXCEPT !.code = 200,
                                !.handshakeId = me.handshakeId,
                                !.status = "matched",
                                !.transaction = FeeTx(me.walletAddress)])
               /\ claimed' = IF workload = "minting"  \* kept where mint runs
                             THEN claimed \cup {me.handshakeId} ELSE claimed
            \/ /\ Respond(p, Error(500, "Failed"))     \* getLatestBlockhash throws
               /\ UNCHANGED claimed
  /\ UNCHANGED <<user_points, trust_scores, nfts, now, workload, feeSchedule, vm>>

\* ---------------------------------------------- POST /api/handshake/confirm-tx
\* the request arrives; fetch the row, relay the transaction and await finality
ConfirmRelay(p) ==
  /\ proc[p].pc = "idle"
  /\ workload \in {"payments", "minting"}
  /\ \E handshakeId \in 1..RecordCap, side \in Sides :
     \E signedTransaction \in SignedTxs(selectById(handshakeId), side) :
       LET handshake == selectById(handshakeId)
           me == [Idle EXCEPT !.op = "confirm", !.handshakeId = handshakeId,
                              !.side = side]
       IN  IF handshake = NoRow
           THEN proc' = [proc EXCEPT ![p] =
                  [me EXCEPT !.pc = "done", !.res = Error(404, "NotFound")]]
           ELSE \/ proc' = [proc EXCEPT ![p] =         \* confirmed on the ledger
                     [me EXCEPT !.pc = "confirm_update",
                                !.txSignature = signedTransaction]]
                \/ /\ workload = "payments"           \* landed, execution failed:
                   /\ signedTransaction # JunkTx      \* the result is not looked at
                   /\ proc' = [proc EXCEPT ![p] =
                        [me EXCEPT !.pc = "confirm_update",
                                   !.txSignature = Reverted(signedTransaction)]]
                \/ proc' = [proc EXCEPT ![p] =         \* send or confirm throws
                     [me EXCEPT !.pc = "done", !.res = Error(500, "PaymentFailed")]]
  /\ UNCHANGED <<handshakes, user_points, trust_scores, nfts, now, workload, feeSchedule, claimed, vm>>

\* .update(updateFields).eq('id', handshakeId)
ConfirmUpdate(p) ==
  /\ proc[p].pc = "confirm_update"
  /\ LET me == proc[p]
     IN  handshakes' = [handshakes EXCEPT ![me.handshakeId] =
           IF me.side = "initiator"
           THEN [@ EXCEPT !.initiator_tx_signature = me.txSignature,
                          !.initiator_minted_at = now]
           ELSE [@ EXCEPT !.receiver_tx_signature = me.txSignature,
                          !.receiver_minted_at = now]]
  /\ proc' = [proc EXCEPT ![p].pc = "confirm_reread"]
  /\ UNCHANGED <<user_points, trust_scores, nfts, now, workload, feeSchedule, claimed, vm>>

\* (mutant: the receiver's signature is not looked at)
bothPaid_InitiatorOnly(updated) ==
  updated.initiator_tx_signature # NoTx

\* updated?.initiator_tx_signature && updated?.receiver_tx_signature
bothPaid(updated) ==
  updated.initiator_tx_signature # NoTx /\ updated.receiver_tx_signature # NoTx

\* re-read the row, compute bothPaid, answer
ConfirmReread(p) ==
  /\ proc[p].pc = "confirm_reread"
  /\ LET me == proc[p]
         updated == selectById(me.handshakeId)
     IN  Respond(p, [NoRes EXCEPT !.code = 200, !.txSignature = me.txSignature,
                       !.side = me.side,
                       !.bothPaid = bothPaid(updated),
                       !.status = updated.status])
  /\ UNCHANGED <<handshakes, user_points, trust_scores, nfts, now, workload, feeSchedule, claimed, vm>>

\* ---------------------------------------------------- POST /api/handshake/mint
\* (mutant: payment is missing only when neither side has paid)
paymentMissing_BothMissing(handshake) ==
  handshake.initiator_tx_signature = NoTx /\ handshake.receiver_tx_signature = NoTx

\* (mutant: only the initiator's payment is looked at)
paymentMissing_InitiatorOnly(handshake) ==
  handshake.initiator_tx_signature = NoTx

\* !handshake.initiator_tx_signature || !handshake.receiver_tx_signature
paymentMissing(handshake) ==
  handshake.initiator_tx_signature = NoTx \/ handshake.receiver_tx_signature = NoTx

\* the request arrives; fetch the row and check it
MintFetch(p) ==
  /\ proc[p].pc = "idle"
  /\ workload = "minting"
  /\ \E handshakeId \in 1..RecordCap :
       LET handshake == selectById(handshakeId)
           me == [Idle EXCEPT !.op = "mint", !.handshakeId = handshakeId,
                              !.handshake = mintView(handshake)]
       IN  IF handshake = NoRow
           THEN proc' = [proc EXCEPT ![p] =
                  [me EXCEPT !.pc = "done", !.res = Error(404, "NotFound")]]
           ELSE IF handshake.status = "minted"
           THEN proc' = [proc EXCEPT ![p] =
                  [me EXCEPT !.pc = "done", !.res = Error(409, "InvalidState")]]
           ELSE IF handshake.status # "matched"
           THEN proc' = [proc EXCEPT ![p] =
                  [me EXCEPT !.pc = "done", !.res = Error(400, "InvalidState")]]
           ELSE IF paymentMissing(handshake)
           THEN proc' = [proc EXCEPT ![p] =
                  [me EXCEPT !.pc = "done", !.res = Error(400, "PaymentIncomplete")]]
           ELSE proc' = [proc EXCEPT ![p] = [me EXCEPT !.pc = "mint_nfts"]]
  /\ UNCHANGED <<handshakes, user_points, trust_scores, nfts, now, workload, feeSchedule, claimed, vm>>

\* mintCNFT for the initiator, then for the receiver; either may throw
MintNfts(p) ==
  /\ proc[p].pc = "mint_nfts"
  /\ LET me == proc[p]
         hs == me.handshake
         n  == Len(nfts)
     IN  \/ /\ n + 2 <= MaxTokens                       \* both minted
            /\ nfts' = nfts \o << <<hs.initiator_wallet, me.handshakeId>>,
                                  <<hs.receiver_wallet, me.handshakeId>> >>
            /\ proc' = [proc EXCEPT ![p] =
                 [@ EXCEPT !.pc = "mint_update", !.initiatorNftSig = n + 1,
                           !.receiverNftSig = n + 2]]
         \/ /\ n + 1 <= MaxTokens                       \* the receiver's mint throws
            /\ nfts' = Append(nfts, <<hs.initiator_wallet, me.handshakeId>>)
            /\ Respond(p, Error(500, "MintFailed"))
         \/ /\ UNCHANGED nfts                           \* the initiator's mint throws
            /\ Respond(p, Error(500, "MintFailed"))
  /\ UNCHANGED <<handshakes, user_points, trust_scores, now, workload, feeSchedule, claimed, vm>>

\* .update({ status: 'minted', ... }).eq('id', handshakeId)
MintUpdate(p) ==
  /\ proc[p].pc = "mint_update"
  /\ LET me == proc[p]
     IN  handshakes' = [handshakes EXCEPT ![me.handshakeId] =
           [@ EXCEPT !.status = "minted",
                     !.initiator_nft_address = me.initiatorNftSig,
                     !.receiver_nft_address = me.receiverNftSig,
                     !.points_awarded = POINTS_PER_HANDSHAKE]]
  /\ proc' = [proc EXCEPT ![p].pc = "mint_settle"]
  /\ UNCHANGED <<user_points, trust_scores, nfts, now, workload, feeSchedule, claimed, vm>>

\* count of minted rows in which uid is a party
mintedCount(uid) ==
  Cardinality({i \in Ids : /\ handshakes[i].status = "minted"
                           /\ \/ handshakes[i].initiator_user_id = uid
                              \/ handshakes[i].receiver_user_id = uid})

\* (mutant: only the initiator is awarded)
pointEntries_InitiatorOnly(handshake, handshakeId) ==
  << [user_id |-> handshake.initiator_user_id, handshake_id |-> handshakeId,
      points |-> POINTS_PER_HANDSHAKE] >>

\* pointEntries: one row per party of the fetched handshake
pointEntries(handshake, handshakeId) ==
  << [user_id |-> handshake.initiator_user_id, handshake_id |-> handshakeId,
      points |-> POINTS_PER_HANDSHAKE],
     [user_id |-> handshake.receiver_user_id, handshake_id |-> handshakeId,
      points |-> POINTS_PER_HANDSHAKE] >>

\* insert the two user_points rows, recompute both trust scores, answer
MintSettle(p) ==
  /\ proc[p].pc = "mint_settle"
  /\ LET me == proc[p]
         hs == me.handshake
         parties == {hs.initiator_user_id, hs.receiver_user_id} \ {NULL}
     IN  /\ user_points' = user_points \o pointEntries(hs, me.handshakeId)
         /\ trust_scores' = [u \in Accounts |->
              IF u \in parties THEN mintedCount(u) ELSE trust_scores[u]]
         /\ Respond(p, [NoRes EXCEPT !.code = 200, !.status = "minted",
                          !.initiatorNft = me.initiatorNftSig,
                          !.receiverNft = me.receiverNftSig,
                          !.pointsAwarded = POINTS_PER_HANDSHAKE])
  /\ UNCHANGED <<handshakes, nfts, now, workload, feeSchedule, claimed, vm>>

\* ---------------------------------------------------- GET /api/handshake/pending
\* identifiers: the texts the stored receiver_identifier is looked up among
identifiers(userId) ==
  LET userTelegram == telegram_links[userId]
      userEmail    == authEmail[userId]
  IN  (IF userTelegram # NoStr
       THEN {toLowerCase(userTelegram), <<"@">> \o toLowerCase(userTelegram)}
       ELSE {})
      \cup (IF userEmail # NoStr THEN {toLowerCase(userEmail)} ELSE {})

\* .eq('status', 'pending').is('receiver_user_id', null)
\* .neq('initiator_user_id', userId).in('receiver_identifier', identifiers)
pendingFor(userId) ==
  IF authEmail[userId] = NoStr /\ telegram_links[userId] = NoStr
  THEN {}
  ELSE {i \in Ids : /\ handshakes[i].status = "pending"
                    /\ handshakes[i].receiver_user_id = NULL
                    /\ handshakes[i].initiator_user_id # userId
                    /\ handshakes[i].receiver_identifier \in identifiers(userId)}

\* the request arrives; the query is run and its rows (their ids) are answered
PendingList(p) ==
  /\ proc[p].pc = "idle"
  /\ workload = "listing"
  /\ \E userId \in Accounts :
       proc' = [proc EXCEPT ![p] =
         [Idle EXCEPT !.op = "pending", !.userId = userId, !.pc = "done",
                      !.res = [NoRes EXCEPT !.code = 200,
                                            !.handshakes = pendingFor(userId)]]]
  /\ UNCHANGED <<handshakes, user_points, trust_scores, nfts, now, workload, feeSchedule, claimed, vm>>

\* ------------------------------------------------------------ environment
\* the response has been delivered; the slot serves another request
Return(p) ==
  /\ proc[p].pc = "done"
  /\ proc' = [proc EXCEPT ![p] = Idle]
  /\ UNCHANGED <<handshakes, user_points, trust_scores, nfts, now, workload, feeSchedule, claimed, vm>>

\* time passes, by more than the lifetime of a pending handshake
Tick ==
  /\ workload \in {"claims", "payments"}
  /\ now + TTL + 1 <= MaxTime
  /\ now' = now + TTL + 1
  /\ UNCHANGED <<handshakes, user_points, trust_scores, nfts, proc, workload, feeSchedule, claimed, vm>>

\* the handlers are deployed again with another value of MINT_FEE_LAMPORTS,
\* while no request is being served
Redeploy ==
  /\ workload = "fees"
  /\ \A p \in Procs : proc[p].pc = "idle"
  /\ feeSchedule = MINT_FEE_LAMPORTS
  /\ feeSchedule' = 2 * MINT_FEE_LAMPORTS
  /\ UNCHANGED <<handshakes, user_points, trust_scores, nfts, now, proc, workload, claimed, vm>>

\* ------------------------------------------------- Android: HandshakeViewModel
\* The view model runs on the main thread: a call and every stretch of a
\* coroutine between two suspension points is one step.  vm.jobs holds the
\* launched coroutines, each by the call it is suspended in.

\* an exception message, or a failure that carries none (Throwable.message
\* is a String?)
Messages == {"message", NULL}

\* if (_actionState.value.isProcessing) return
mayStart(state) == ~state.isProcessing

\* the job list without its k-th job
without(jobs, k) == SubSeq(jobs, 1, k-1) \o SubSeq(jobs, k+1, Len(jobs))

\* the job list with its k-th job suspended in `call`
suspended(jobs, k, call) == [jobs EXCEPT ![k] = call]

\* initiateHandshake / claimHandshake / mintHandshake is called: the guard,
\* then launch up to the first repository call
VmCall ==
  /\ workload = "android"
  /\ \E fn \in {"initiate", "claim", "mint"} :
       /\ mayStart(vm.actionState)
       /\ Len(vm.jobs) < MaxJobs
       /\ vm' = [actionState |-> [HandshakeActionState EXCEPT !.isProcessing = TRUE],
                 jobs |-> Append(vm.jobs, fn)]
  /\ UNCHANGED <<handshakes, user_points, trust_scores, nfts, now, proc, workload,
                 feeSchedule, claimed>>

\* a repository call returns a failure: HandshakeActionState(error = it.message)
VmRepositoryFailure ==
  /\ \E k \in DOMAIN vm.jobs, message \in Messages :
       /\ vm.jobs[k] \in {"initiate", "claim", "mint", "confirm"}
       /\ vm' = [actionState |-> [HandshakeActionState EXCEPT !.error = message],
                 jobs |-> without(vm.jobs, k)]
  /\ UNCHANGED <<handshakes, user_points, trust_scores, nfts, now, proc, workload,
                 feeSchedule, claimed>>

\* initiate or claim returns its response: _actionState.value.copy(currentAction
\* = ...), then the wallet is asked to sign
VmToWallet ==
  /\ \E k \in DOMAIN vm.jobs :
       /\ vm.jobs[k] \in {"initiate", "claim"}
       /\ vm' = [vm EXCEPT !.jobs = suspended(vm.jobs, k, "sign")]
  /\ UNCHANGED <<handshakes, user_points, trust_scores, nfts, now, proc, workload,
                 feeSchedule, claimed>>

\* the wallet answers: Success goes on to confirmTransaction, Cancelled,
\* NoWallet and Error end the action with an error
VmWallet ==
  /\ \E k \in DOMAIN vm.jobs :
       /\ vm.jobs[k] = "sign"
       /\ \/ vm' = [vm EXCEPT !.jobs = suspended(vm.jobs, k, "confirm")]
          \/ vm' = [actionState |-> [HandshakeActionState EXCEPT !.error = "message"],
                    jobs |-> without(vm.jobs, k)]
  /\ UNCHANGED <<handshakes, user_points, trust_scores, nfts, now, proc, workload,
                 feeSchedule, claimed>>

\* confirmTransaction or mint returns its response:
\* HandshakeActionState(success = ...)
VmSuccess ==
  /\ \E k \in DOMAIN vm.jobs :
       /\ vm.jobs[k] \in {"confirm", "mint"}
       /\ vm' = [actionState |-> [HandshakeActionState EXCEPT !.success = "message"],
                 jobs |-> without(vm.jobs, k)]
  /\ UNCHANGED <<handshakes, user_points, trust_scores, nfts, now, proc, workload,
                 feeSchedule, claimed>>

Next ==
  \/ \E p \in Procs : InitiateCheck(p)
  \/ \E p \in Procs : InitiateInsert(p)
  \/ \E p \in Procs : ClaimFetch(p)
  \/ \E p \in Procs : ClaimExpire(p)
  \/ \E p \in Procs : ClaimUpdate(p)
  \/ \E p \in Procs : ConfirmRelay(p)
  \/ \E p \in Procs : ConfirmUpdate(p)
  \/ \E p \in Procs : ConfirmReread(p)
  \/ \E p \in Procs : MintFetch(p)
  \/ \E p \in Procs : MintNfts(p)
  \/ \E p \in Procs : MintUpdate(p)
  \/ \E p \in Procs : MintSettle(p)
  \/ \E p \in Procs : PendingList(p)
  \/ \E p \in Procs : Return(p)
  \/ Tick
  \/ Redeploy
  \/ VmCall
  \/ VmRepositoryFailure
  \/ VmToWallet
  \/ VmWallet
  \/ VmSuccess

Spec == Init /\ [][Next]_vars

\* Requests served one after the other: a request is taken up and carried
\* on only while no other request is in service.
Alone(p) == \A q \in Procs \ {p} : proc[q].pc = "idle"

SerialNext ==
  \/ \E p \in Procs : Alone(p) /\ InitiateCheck(p)
  \/ \E p \in Procs : Alone(p) /\ InitiateInsert(p)
  \/ \E p \in Procs : Alone(p) /\ ClaimFetch(p)
  \/ \E p \in Procs : Alone(p) /\ ClaimExpire(p)
  \/ \E p \in Procs : Alone(p) /\ ClaimUpdate(p)
  \/ \E p \in Procs : Alone(p) /\ ConfirmRelay(p)
  \/ \E p \in Procs : Alone(p) /\ ConfirmUpdate(p)
  \/ \E p \in Procs : Alone(p) /\ ConfirmReread(p)
  \/ \E p \in Procs : Alone(p) /\ MintFetch(p)
  \/ \E p \in Procs : Alone(p) /\ MintNfts(p)
  \/ \E p \in Procs : Alone(p) /\ MintUpdate(p)
  \/ \E p \in Procs : Alone(p) /\ MintSettle(p)
  \/ \E p \in Procs : Alone(p) /\ PendingList(p)
  \/ \E p \in Procs : Alone(p) /\ Return(p)
  \/ Tick
  \/ Redeploy

SerialSpec == Init /\ [][SerialNext]_vars


\* ------------------------------------------------------ a failing record store
\* supabase-js reports a failed write in the `error` of the awaited result and
\* does not throw; the three updates below are awaited without looking at it,
\* so after a write that fails the handler carries on as after one that worked.

\* claim: the update to matched fails
ClaimUpdateLost(p) ==
  /\ proc[p].pc = "claim_update"
  /\ LET me == proc[p]
     IN  \/ /\ Respond(p, [NoRes EXCEPT !.code = 200, !.handshakeId = me.handshakeId,
                                !.status = "matched",
                                !.transaction = FeeTx(me.walletAddress)])
            /\ claimed' = IF workload = "minting"
                          THEN claimed \cup {me.handshakeId} ELSE claimed
         \/ /\ Respond(p, Error(500, "Failed"))
            /\ UNCHANGED claimed
  /\ UNCHANGED <<handshakes, user_points, trust_scores, nfts, now, workload, feeSchedule, vm>>

\* confirm-tx: the update of the side's signature fails
ConfirmUpdateLost(p) ==
  /\ proc[p].pc = "confirm_update"
  /\ proc' = [proc EXCEPT ![p].pc = "confirm_reread"]
  /\ UNCHANGED <<handshakes, user_points, trust_scores, nfts, now, workload, feeSchedule, claimed, vm>>

\* mint: the update to minted fails
MintUpdateLost(p) ==
  /\ proc[p].pc = "mint_update"
  /\ proc' = [proc EXCEPT ![p].pc = "mint_settle"]
  /\ UNCHANGED <<handshakes, user_points, trust_scores, nfts, now, workload, feeSchedule, claimed, vm>>

FaultyInit == Init /\ workload \in {"payments", "minting"}

\* the handlers that write to the handshakes table, with their failing writes
FaultyNext ==
  \/ \E p \in Procs : InitiateCheck(p)
  \/ \E p \in Procs : InitiateInsert(p)
  \/ \E p \in Procs : ClaimFetch(p)
  \/ \E p \in Procs : ClaimExpire(p)
  \/ \E p \in Procs : ClaimUpdate(p)
  \/ \E p \in Procs : ConfirmRelay(p)
  \/ \E p \in Procs : ConfirmUpdate(p)
  \/ \E p \in Procs : ConfirmReread(p)
  \/ \E p \in Procs : MintFetch(p)
  \/ \E p \in Procs : MintNfts(p)
  \/ \E p \in Procs : MintUpdate(p)
  \/ \E p \in Procs : MintSettle(p)
  \/ \E p \in Procs : Return(p)
  \/ Tick
  \/ \E p \in Procs : ClaimUpdateLost(p)
  \/ \E p \in Procs : ConfirmUpdateLost(p)
  \/ \E p \in Procs : MintUpdateLost(p)

FaultySpec == FaultyInit /\ [][FaultyNext]_vars

\* ======================================================================
\* Properties
\* ======================================================================

\* tx is the fee transfer of `row` paid from `wallet` to the treasury
isFeePayment(tx, wallet, row) ==
  /\ wallet # NULL
  /\ tx = <<wallet, TREASURY_WALLET, row.mint_fee_lamports>>

claimWon(p) ==
  /\ proc[p].op = "claim"
  /\ proc[p].pc = "done"
  /\ proc[p].res.code = 200

\* C2: of two claims of one row by distinct accounts whose answers are both
\* outstanding, at most one is answered "matched", and the row's receiver
\* account and wallet are those of the claim that was answered "matched".
C2_SingleClaimWinner ==
  /\ \A p, q \in Procs :
       (p # q /\ claimWon(p) /\ claimWon(q)
          /\ proc[p].handshakeId = proc[q].handshakeId)
         => proc[p].userId = proc[q].userId
  /\ \A p \in Procs :
       claimWon(p) =>
         /\ handshakes[proc[p].handshakeId].receiver_user_id = proc[p].userId
         /\ handshakes[proc[p].handshakeId].receiver_wallet = proc[p].walletAddress

\* a mint request that has minted its tokens on the tree
hasMinted(p) == proc[p].op = "mint" /\ proc[p].initiatorNftSig # 0

\* C5: of the mint requests in flight for one handshake at most one mints
\* tokens, and at most one is answered "minted".
C5_SingleMinter ==
  \A p, q \in Procs :
    (p # q /\ proc[p].handshakeId = proc[q].handshakeId)
      => ~(hasMinted(p) /\ hasMinted(q))

\* C6: at most one pending or matched row exists for a pair
\* (initiator_user_id, contact_id).
C6_OneOpenPerPair ==
  \A i, j \in Ids :
    (/\ i # j
     /\ handshakes[i].initiator_user_id = handshakes[j].initiator_user_id
     /\ handshakes[i].contact_id = handshakes[j].contact_id
     /\ handshakes[i].status \in {"pending", "matched"})
      => handshakes[j].status \notin {"pending", "matched"}

\* ---- claim: identity, state and expiry checks

\* a step in which a claim request of p arrives and its row is fetched
claimArrives(p) ==
  /\ proc[p].pc = "idle"
  /\ proc'[p].op = "claim"
  /\ selectById(proc'[p].handshakeId) # NoRow

\* the row a claim request of p is about
claimedRow(p) == handshakes[proc[p].handshakeId]

\* the account does not pass the identity check of the row
nonMatching(userId, row) == ~identifierMatch(userId, row.receiver_identifier)

\* the step answers p with the failure `kind` and writes nothing to the table
rejectedWith(p, kind) ==
  /\ proc'[p].pc = "done"
  /\ proc'[p].res.error = kind
  /\ handshakes' = handshakes

\* every receiver on record passed the identity check of its row
receiverIsMatching ==
  \A i \in Ids :
    handshakes[i].receiver_user_id # NULL
      => identifierMatch(handshakes[i].receiver_user_id,
                         handshakes[i].receiver_identifier)

\* the row is pending with no receiver attached
pendingUnclaimed(row) ==
  /\ row.status = "pending"
  /\ row.receiver_user_id = NULL
  /\ row.receiver_wallet = NULL

openRows(userId, contactId) ==
  {i \in Ids : /\ handshakes[i].initiator_user_id = userId
               /\ handshakes[i].contact_id = contactId
               /\ handshakes[i].status \in {"pending", "matched"}}

\* C7: an initiate request that arrives while a pending or matched row exists
\* for its pair creates no row and is answered DuplicateHandshake with that
\* row's id and current status.
C7_SecondInitiateIsDuplicate ==
  [][\A p \in Procs :
       LET open == openRows(proc'[p].userId, proc'[p].contactId)
       IN  (/\ proc[p].pc = "idle"
            /\ proc'[p].op = "initiate"
            /\ open # {})
             => /\ proc'[p].pc = "done"
                /\ proc'[p].res.error = "DuplicateHandshake"
                /\ proc'[p].res.handshakeId \in open
                /\ proc'[p].res.status = handshakes[proc'[p].res.handshakeId].status
                /\ handshakes' = handshakes]_vars

\* ---- the status life cycle

\* C8: once a row is minted or expired, no step changes its status.
C8_TerminalStatesSticky ==
  [][\A i \in Ids :
       handshakes[i].status \in {"minted", "expired"}
         => handshakes'[i].status = handshakes[i].status]_vars

\* C9: every change of a row's status is pending to matched, matched to
\* minted, or pending to expired.
C9_OnlyLegalTransitions ==
  [][\A i \in Ids :
       handshakes'[i].status # handshakes[i].status
         => <<handshakes[i].status, handshakes'[i].status>> \in
              {<<"pending", "matched">>, <<"matched", "minted">>,
               <<"pending", "expired">>}]_vars

\* ---- claim: lazy expiry

\* the step in which a claim request that found its row overdue finishes
expiryFinishes(p) == proc[p].pc = "claim_expire" /\ proc'[p] # proc[p]

\* C10 (as stated): a claim on a pending row whose expires_at has passed is
\* answered Expired and leaves the row expired, whoever the claiming account.
C10_ExpiredForEveryAccount ==
  [][\A p \in Procs :
       LET row == selectById(proc'[p].handshakeId)
       IN  /\ (claimArrives(p) /\ row.status = "pending" /\ row.expires_at < now)
                => proc'[p].pc = "claim_expire"
           /\ expiryFinishes(p)
                => /\ proc'[p].pc = "done"
                   /\ proc'[p].res.error = "Expired"
                   /\ handshakes'[proc[p].handshakeId].status = "expired"]_vars

\* C10 (amended): a claim on a pending row whose expires_at has passed, by any
\* account other than the row's initiator, is answered Expired and leaves
\* the row expired; the initiator's claim is answered SelfClaim and leaves
\* the row as it is.
C10_ExpiredUnlessInitiator ==
  [][\A p \in Procs :
       LET row == selectById(proc'[p].handshakeId)
       IN  /\ (claimArrives(p) /\ row.status = "pending" /\ row.expires_at < now)
                => IF proc'[p].userId = row.initiator_user_id
                   THEN rejectedWith(p, "SelfClaim")
                   ELSE proc'[p].pc = "claim_expire"
           /\ expiryFinishes(p)
                => /\ proc'[p].pc = "done"
                   /\ proc'[p].res.error = "Expired"
                   /\ handshakes'[proc[p].handshakeId].status = "expired"]_vars

\* C10 witness: a claim has been answered Expired and its row is expired.
C10_Witness ==
  \E p \in Procs :
    /\ proc[p].op = "claim"
    /\ proc[p].pc = "done"
    /\ proc[p].res.error = "Expired"
    /\ claimedRow(p).status = "expired"
    /\ claimedRow(p).expires_at < now


\* ---------------------------------------------------------------- C11
\* p's mint request arrives in this step
mintArrives(p) ==
  /\ proc[p].pc = "idle"
  /\ proc'[p].op = "mint"

\* exactly one of the two payment signatures of the row is set
onePaid(row) ==
  (row.initiator_tx_signature = NoTx) # (row.receiver_tx_signature = NoTx)

\* C11: mint on a matched record with exactly one of the two payment
\* signatures set fails with PaymentIncomplete, mints no token, appends no
\* points entry and leaves the record unchanged.
C11_OnePaymentIsIncomplete ==
  [][\A p \in Procs :
       (/\ mintArrives(p)
        /\ selectById(proc'[p].handshakeId).status = "matched"
        /\ onePaid(selectById(proc'[p].handshakeId)))
       => /\ proc'[p].pc = "done"
          /\ proc'[p].res.code = 400
          /\ proc'[p].res.error = "PaymentIncomplete"
          /\ nfts' = nfts
          /\ user_points' = user_points
          /\ handshakes' = handshakes]_vars

\* C11 witness: a mint has been answered PaymentIncomplete on a matched record
\* that has exactly one payment signature.
C11_Witness ==
  \E p \in Procs :
    /\ proc[p].op = "mint"
    /\ proc[p].pc = "done"
    /\ proc[p].res.error = "PaymentIncomplete"
    /\ selectById(proc[p].handshakeId).status = "matched"
    /\ onePaid(selectById(proc[p].handshakeId))
    /\ nfts = << >>
    /\ user_points = << >>

C13_MintedImpliesBothSigned ==
  \A id \in Ids :
    handshakes[id].status = "minted"
      => /\ handshakes[id].initiator_tx_signature # NoTx
         /\ handshakes[id].receiver_tx_signature # NoTx

\* C13 witness: a mint has written status minted on a record that carries
\* both payment signatures.
C13_Witness ==
  \E p \in Procs :
    /\ proc[p].op = "mint"
    /\ proc[p].pc = "mint_settle"
    /\ selectById(proc[p].handshakeId).status = "minted"
    /\ selectById(proc[p].handshakeId).initiator_tx_signature # NoTx
    /\ selectById(proc[p].handshakeId).receiver_tx_signature # NoTx

\* ---------------------------------------------------------------- C14
\* the receiver of every claimed row is an account other than its initiator
partiesDistinct ==
  \A id \in Ids :
    handshakes[id].receiver_user_id # NULL
      => handshakes[id].receiver_user_id # handshakes[id].initiator_user_id

\* C14: in every reachable state a record whose receiver is set has a
\* receiver different from its initiator, and a claim by the record's
\* initiator is rejected (SelfClaim on a pending record, InvalidState
\* otherwise) and writes nothing, so receiver fields that are null stay null.
C14_InitiatorNeverReceiver ==
  /\ []partiesDistinct
  /\ [][\A p \in Procs :
          (/\ claimArrives(p)
           /\ proc'[p].userId = selectById(proc'[p].handshakeId).initiator_user_id)
          => LET row == selectById(proc'[p].handshakeId)
             IN  /\ rejectedWith(p, IF row.status = "pending"
                                    THEN "SelfClaim" ELSE "InvalidState")
                 /\ proc'[p].res.code # 200
                 /\ pendingUnclaimed(row)
                      => pendingUnclaimed(handshakes'[row.id])]_vars

\* C14 witness: the initiator's claim on a record addressed to the initiator's
\* own handle has been answered SelfClaim and the receiver fields are null.
C14_Witness ==
  \E p \in Procs :
    /\ proc[p].op = "claim"
    /\ proc[p].pc = "done"
    /\ proc[p].handshakeId \in Ids
    /\ proc[p].userId = claimedRow(p).initiator_user_id
    /\ identifierMatch(proc[p].userId, claimedRow(p).receiver_identifier)
    /\ proc[p].res.error = "SelfClaim"
    /\ pendingUnclaimed(claimedRow(p))

\* ---------------------------------------------------------------- C15
\* the user_points rows of handshake id awarded to account u
entriesFor(id, u) ==
  {k \in DOMAIN user_points :
     user_points[k].handshake_id = id /\ user_points[k].user_id = u}

\* C15: points entries are appended only by mint (by the step that settles
\* it), and in every reachable state every handshake has at most one entry
\* per party, also after repeated or concurrent mint calls.
C15_OneEntryPerParty ==
  /\ [](\A id \in Ids, u \in Accounts : Cardinality(entriesFor(id, u)) <= 1)
  /\ [][user_points' # user_points
          => \E p \in Procs : proc[p].op = "mint" /\ proc[p].pc = "mint_settle"]_vars

\* ---------------------------------------------------------------- C16
\* in this step p's mint has minted the initiator's token and the receiver's
\* mint has failed
partialMint(p) ==
  /\ proc[p].pc = "mint_nfts"
  /\ proc'[p].pc = "done"
  /\ Len(nfts') = Len(nfts) + 1

\* the row is matched and carries no token reference
plainMatched(row) ==
  /\ row.status = "matched"
  /\ row.initiator_nft_address = 0
  /\ row.receiver_nft_address = 0

\* C16: when during mint the initiator's token is minted and the receiver's
\* mint fails, the caller is answered MintPartialFailure and the stored record
\* is not left as a plain matched record without a trace of the minted token.
C16_PartialMintReported ==
  [][\A p \in Procs :
       partialMint(p)
       => /\ proc'[p].res.error = "MintPartialFailure"
          /\ ~plainMatched(handshakes'[proc[p].handshakeId])]_vars

\* ---------------------------------------------------------------- C17
\* the signature column of `side` in the row
signatureOf(row, side) ==
  IF side = "initiator" THEN row.initiator_tx_signature
  ELSE row.receiver_tx_signature

confirmed(p, id, side) ==
  /\ proc[p].op = "confirm"
  /\ proc[p].pc = "done"
  /\ proc[p].res.code = 200
  /\ proc[p].handshakeId = id
  /\ proc[p].side = side

\* the payment columns of `side` in the row
paymentOf(row, side) ==
  IF side = "initiator"
  THEN <<row.initiator_tx_signature, row.initiator_minted_at>>
  ELSE <<row.receiver_tx_signature, row.receiver_minted_at>>

otherSide(side) == IF side = "initiator" THEN "receiver" ELSE "initiator"

\* C18: for one successful confirm-tx per side of the same record, in either
\* order or interleaved, the record ends with both signatures set and at
\* least one of the two answers has bothPaid = true; the write of one side
\* leaves the other side's columns alone; and bothPaid = true is answered only
\* when both signatures are set at the re-read.
C18_ConfirmsCommute ==
  /\ [](\A p, q \in Procs, id \in Ids :
          (confirmed(p, id, "initiator") /\ confirmed(q, id, "receiver"))
          => /\ handshakes[id].initiator_tx_signature # NoTx
             /\ handshakes[id].receiver_tx_signature # NoTx
             /\ proc[p].res.bothPaid \/ proc[q].res.bothPaid)
  /\ [][\A p \in Procs :
          /\ (proc[p].pc = "confirm_update" /\ proc'[p].pc = "confirm_reread")
             => LET id == proc[p].handshakeId
                    other == otherSide(proc[p].side)
                IN  /\ paymentOf(handshakes'[id], other) = paymentOf(handshakes[id], other)
                    /\ signatureOf(handshakes'[id], proc[p].side) = proc[p].txSignature
          /\ (proc[p].pc = "confirm_reread" /\ proc'[p].pc = "done"
                                              /\ proc'[p].res.bothPaid)
             => /\ handshakes[proc[p].handshakeId].initiator_tx_signature # NoTx
                /\ handshakes[proc[p].handshakeId].receiver_tx_signature # NoTx]_vars

\* C18 witness: the two sides' confirmations were interleaved (both wrote
\* before either re-read), both are answered, and both report bothPaid.
C18_Witness ==
  \E p, q \in Procs, id \in Ids :
    /\ confirmed(p, id, "initiator")
    /\ confirmed(q, id, "receiver")
    /\ proc[p].res.bothPaid
    /\ proc[q].res.bothPaid
    /\ handshakes[id].initiator_tx_signature = proc[p].txSignature
    /\ handshakes[id].receiver_tx_signature = proc[q].txSignature

\* C18 sequential case: the initiator's confirmation finished before the
\* receiver's wrote, so only the receiver's answer reports bothPaid.
C18_WitnessInOrder ==
  \E p, q \in Procs, id \in Ids :
    /\ confirmed(p, id, "initiator")
    /\ confirmed(q, id, "receiver")
    /\ ~proc[p].res.bothPaid
    /\ proc[q].res.bothPaid

entriesOf(id) == {k \in DOMAIN user_points : user_points[k].handshake_id = id}

\* p's mint has been answered 200
mintAnswered(p) ==
  /\ proc[p].op = "mint"
  /\ proc[p].pc = "done"
  /\ proc[p].res.code = 200

\* what the scenario ends with, for the handshake of p's mint
mintedInFull(p) ==
  LET id == proc[p].handshakeId
      row == selectById(id)
  IN  /\ row.status = "minted"
      /\ proc[p].res.status = "minted"
      /\ row.points_awarded = 10
      /\ proc[p].res.pointsAwarded = 10
      /\ row.initiator_nft_address # 0
      /\ row.receiver_nft_address # 0
      /\ row.initiator_nft_address # row.receiver_nft_address
      /\ Cardinality(entriesOf(id)) = 2
      /\ Cardinality(entriesFor(id, row.initiator_user_id)) = 1
      /\ Cardinality(entriesFor(id, row.receiver_user_id)) = 1
      /\ \A k \in entriesOf(id) : user_points[k].points = 10

\* C20: with the requests served one after the other, initiate, claim by a
\* matching account other than the initiator, confirm-tx for the initiator,
\* confirm-tx for the receiver and mint run through: a confirm-tx answered
\* when the other side has paid reports bothPaid = true, mint goes on to mint
\* whenever the record is matched with both signatures, and a mint that is
\* answered 200 leaves status minted, pointsAwarded = 10, two distinct token
\* references and exactly two points entries, one per party.
C20_ScenarioRunsThrough ==
  /\ [](\A p \in Procs :
          /\ mintAnswered(p) => mintedInFull(p)
          /\ \A side \in Sides :
               (/\ proc[p].handshakeId \in Ids
                /\ confirmed(p, proc[p].handshakeId, side)
                /\ signatureOf(claimedRow(p), otherSide(side)) # NoTx)
               => proc[p].res.bothPaid)
  /\ [][\A p \in Procs :
          (/\ mintArrives(p)
           /\ selectById(proc'[p].handshakeId).status = "matched"
           /\ ~paymentMissing(selectById(proc'[p].handshakeId)))
          => proc'[p].pc = "mint_nfts"]_vars

\* C20 witness: alice's handshake, claimed by bob, paid by both with the fee
\* transfers built for them, has been minted: the mint is answered 200 with
\* two distinct tokens, 10 points and one points entry for each of the two.
C20_Witness ==
  \E p \in Procs :
    /\ mintAnswered(p)
    /\ mintedInFull(p)
    /\ LET row == selectById(proc[p].handshakeId)
       IN  /\ row.initiator_user_id = "alice"
           /\ row.receiver_user_id = "bob"
           /\ row.initiator_tx_signature = FeeTx("wA")
           /\ row.receiver_tx_signature = FeeTx("wB")
           /\ nfts[row.initiator_nft_address] = <<"wA", row.id>>
           /\ nfts[row.receiver_nft_address] = <<"wB", row.id>>
           /\ Len(nfts) = 2
           /\ proc[p].res.initiatorNft = row.initiator_nft_address
           /\ proc[p].res.receiverNft = row.receiver_nft_address

\* ---------------------------------------------------------------- C21
\* the documented normalisation: lowercase, with one leading '@' stripped
normalize(s) ==
  toLowerCase(IF Len(s) > 0 /\ s[1] = "@" THEN SubSeq(s, 2, Len(s)) ELSE s)

\* the identifiers the account resolves to
identifiersOf(userId) == {telegram_links[userId], authEmail[userId]} \ {NoStr}

\* the stored identifier matches one of the account's identifiers,
\* case-insensitively and tolerant of a leading '@'
normalizedMatch(userId, receiverId) ==
  \E x \in identifiersOf(userId) : normalize(receiverId) = normalize(x)

\* the rows listPendingFor is to return for the account
addressedPending(userId) ==
  {i \in Ids : /\ handshakes[i].status = "pending"
               /\ handshakes[i].receiver_user_id = NULL
               /\ handshakes[i].initiator_user_id # userId
               /\ normalizedMatch(userId, handshakes[i].receiver_identifier)}

\* C21: the pending list of an account is exactly the records that are
\* pending, have no receiver, were initiated by another account and whose
\* receiver_identifier matches one of the account's identifiers
\* case-insensitively and tolerant of a leading '@'; listing writes nothing.
C21_ListsAddressedPending ==
  [][\A p \in Procs :
       (proc[p].pc = "idle" /\ proc'[p].op = "pending")
       => /\ proc'[p].res.handshakes = addressedPending(proc'[p].userId)
          /\ handshakes' = handshakes]_vars

\* ---------------------------------------------------------------- C22
\* claim's identity check agrees with the documented normalisation on every
\* pending row
claimCheckIsNormalized ==
  \A u \in Accounts, i \in Ids :
    handshakes[i].status = "pending"
      => (identifierMatch(u, handshakes[i].receiver_identifier)
            <=> normalizedMatch(u, handshakes[i].receiver_identifier))

\* C22: for every account and every pending record, the identifier filter of
\* the pending list accepts the record if and only if claim's identity check
\* accepts the account for it, and both equal the comparison of the
\* lowercased, leading-'@'-stripped stored identifier with the account's
\* identifiers normalised the same way.
C22_FilterEqualsClaimCheck ==
  /\ \A u \in Accounts, i \in Ids :
       handshakes[i].status = "pending"
         => ((handshakes[i].receiver_identifier \in identifiers(u))
               <=> identifierMatch(u, handshakes[i].receiver_identifier))
  /\ claimCheckIsNormalized

\* ---------------------------------------------------------------- C23
\* C23: when claim fails after the identity check has passed (while the
\* receiver's fee transaction is being built), the record is left pending
\* with no receiver, so that the same receiver can claim again; claim never
\* reports a failure while leaving the record matched.
C23_FailedClaimLeavesPending ==
  [][\A p \in Procs :
       (/\ proc[p].pc = "claim_update"
        /\ proc'[p].pc = "done"
        /\ proc'[p].res.code # 200)
       => pendingUnclaimed(handshakes'[proc[p].handshakeId])]_vars

\* ---------------------------------------------------------------- C24
\* the rows of which p's arriving initiate request is a retry: an open row of
\* the same initiator and contact whose initiator has not paid yet
retriedRows(p) ==
  {i \in Ids : /\ handshakes[i].initiator_user_id = proc'[p].userId
               /\ handshakes[i].contact_id = proc'[p].contactId
               /\ handshakes[i].status \in {"pending", "matched"}
               /\ handshakes[i].initiator_tx_signature = NoTx}

\* p's arriving claim request is a retry of the receiver on record: the row
\* is matched to the caller, who has not paid yet
receiverRetries(p) ==
  /\ claimArrives(p)
  /\ selectById(proc'[p].handshakeId).status = "matched"
  /\ selectById(proc'[p].handshakeId).receiver_user_id = proc'[p].userId
  /\ selectById(proc'[p].handshakeId).receiver_tx_signature = NoTx

\* C24: a side whose payment has not been recorded (its confirm-tx failed or
\* its signing was cancelled) can obtain a fresh unsigned fee transaction for
\* the same record from the coordinator: the initiator's repeated initiate and
\* the receiver's repeated claim are not turned away as DuplicateHandshake or
\* InvalidState.
C24_RetryGetsTransaction ==
  [][\A p \in Procs :
       proc[p].pc = "idle"
       => /\ (proc'[p].op = "initiate" /\ retriedRows(p) # {})
             => proc'[p].res.error # "DuplicateHandshake"
          /\ receiverRetries(p)
             => proc'[p].res.error # "InvalidState"]_vars

\* C24, the receiver's side alone
C24_ReceiverRetryGetsTransaction ==
  [][\A p \in Procs :
       (proc[p].pc = "idle" /\ receiverRetries(p))
       => proc'[p].res.error # "InvalidState"]_vars

\* ---------------------------------------------------------------- C25
\* C25: a mint answered 200 is preceded by a claim of the record answered 200
\* and by a confirm-tx for each of the two sides (each has recorded its
\* signature); mint on a record that is still pending fails with InvalidState
\* and changes nothing.
C25_MintAfterClaimAndPayments ==
  /\ [](\A p \in Procs :
          mintAnswered(p)
          => /\ proc[p].handshakeId \in claimed
             /\ selectById(proc[p].handshakeId).initiator_tx_signature # NoTx
             /\ selectById(proc[p].handshakeId).receiver_tx_signature # NoTx)
  /\ [][\A p \in Procs :
          (mintArrives(p) /\ selectById(proc'[p].handshakeId).status = "pending")
          => /\ proc'[p].pc = "done"
             /\ proc'[p].res.error = "InvalidState"
             /\ handshakes' = handshakes
             /\ nfts' = nfts
             /\ user_points' = user_points]_vars

\* C25 without the claim's answer: a mint answered 200 finds the record with
\* a receiver and both signatures, and mint on a pending record is refused.
C25_MintAfterMatchAndPayments ==
  /\ [](\A p \in Procs :
          mintAnswered(p)
          => /\ selectById(proc[p].handshakeId).receiver_user_id # NULL
             /\ selectById(proc[p].handshakeId).initiator_tx_signature # NoTx
             /\ selectById(proc[p].handshakeId).receiver_tx_signature # NoTx)
  /\ [][\A p \in Procs :
          (mintArrives(p) /\ selectById(proc'[p].handshakeId).status = "pending")
          => /\ proc'[p].pc = "done"
             /\ proc'[p].res.error = "InvalidState"
             /\ handshakes' = handshakes
             /\ nfts' = nfts
             /\ user_points' = user_points]_vars

\* ---------------------------------------------------------------- C26
\* the columns fixed at creation
createdColumns(row) ==
  <<row.id, row.expires_at, row.initiator_user_id, row.receiver_identifier,
    row.mint_fee_lamports>>

\* C26: no step of claim, confirm-tx or mint (nor of any other handler)
\* changes a record's expires_at, initiator_user_id, receiver_identifier or
\* mint_fee_lamports, and no step deletes a record.
C26_CreatedColumnsFrozen ==
  [][/\ Len(handshakes') >= Len(handshakes)
     /\ \A id \in Ids :
          createdColumns(handshakes'[id]) = createdColumns(handshakes[id])]_vars

\* C26 witness: a record that claim, both confirm-tx and mint have written
\* to still has the columns it was created with.
C26_Witness ==
  \E id \in Ids :
    /\ handshakes[id].status = "minted"
    /\ handshakes[id].receiver_user_id # NULL
    /\ handshakes[id].initiator_nft_address # 0
    /\ handshakes[id].initiator_tx_signature # NoTx
    /\ handshakes[id].receiver_tx_signature # NoTx
    /\ createdColumns(handshakes[id]) =
         <<id, 1 + TTL, "alice", contacts["c1"].telegram_handle, MINT_FEE_LAMPORTS>>

\* C26, second case: a record that was expired by claim
C26_WitnessExpired ==
  \E id \in Ids :
    /\ handshakes[id].status = "expired"
    /\ handshakes[id].expires_at < now
    /\ handshakes[id].receiver_identifier = receiverIdentifierOf(handshakes[id].contact_id)

\* ---------------------------------------------------------------- C27
\* the rows of the pair of p's arriving initiate request
pairRows(p) ==
  {i \in Ids : /\ handshakes[i].initiator_user_id = proc'[p].userId
               /\ handshakes[i].contact_id = proc'[p].contactId}

\* C27: initiate is answered DuplicateHandshake only when a pending or
\* matched record exists for the (initiator, contact) pair; when every
\* existing record of the pair is minted or expired, the request is not
\* turned away as a duplicate.
C27_DuplicateOnlyWhenOpen ==
  [][\A p \in Procs :
       (proc[p].pc = "idle" /\ proc'[p].op = "initiate")
       => /\ proc'[p].res.error = "DuplicateHandshake"
               => \E i \in pairRows(p) : handshakes[i].status \in {"pending", "matched"}
          /\ (\A i \in pairRows(p) : handshakes[i].status \in {"minted", "expired"})
               => proc'[p].res.error # "DuplicateHandshake"]_vars

\* ---------------------------------------------------------------- C28
\* p is answered in this step, with a success
answeredOk(p, op) ==
  /\ proc[p].pc # "done"
  /\ proc'[p].pc = "done"
  /\ proc'[p].op = op
  /\ proc'[p].res.code = 200

\* C28: a success answer implies the stored state, also when a write to the
\* record store fails: when claim answers matched the stored record is
\* matched with the caller as receiver, when confirm-tx answers a
\* txSignature the stored signature of that side equals it, and when mint
\* answers minted the stored record is minted with the answered token
\* references.
C28_SuccessImpliesStored ==
  [][\A p \in Procs :
       LET row == handshakes'[proc[p].handshakeId]
       IN  /\ answeredOk(p, "claim")
              => /\ row.status = "matched"
                 /\ row.receiver_user_id = proc[p].userId
                 /\ row.receiver_wallet = proc[p].walletAddress
           /\ answeredOk(p, "confirm")
              => signatureOf(row, proc[p].side) = proc'[p].res.txSignature
           /\ answeredOk(p, "mint")
              => /\ row.status = "minted"
                 /\ row.initiator_nft_address = proc'[p].res.initiatorNft
                 /\ row.receiver_nft_address = proc'[p].res.receiverNft]_vars

\* ---------------------------------------------------------------- C29
\* C29: once a side's signature and minted-at are recorded no later
\* confirm-tx changes them, and confirm-tx on a minted or expired record
\* leaves every stored field of the record unchanged.
C29_RecordedPaymentIsFinal ==
  [][\A id \in Ids :
       /\ \A side \in Sides :
            signatureOf(handshakes[id], side) # NoTx
              => paymentOf(handshakes'[id], side) = paymentOf(handshakes[id], side)
       /\ (/\ handshakes[id].status \in {"minted", "expired"}
           /\ \E p \in Procs : /\ proc[p].pc = "confirm_update"
                               /\ proc'[p].pc = "confirm_reread"
                               /\ proc[p].handshakeId = id)
          => handshakes'[id] = handshakes[id]]_vars

\* C29, second half alone: confirm-tx on a minted or expired record writes
\* nothing
C29_TerminalRecordUntouched ==
  [][\A id \in Ids :
       (/\ handshakes[id].status \in {"minted", "expired"}
        /\ \E p \in Procs : /\ proc[p].pc = "confirm_update"
                            /\ proc'[p].pc = "confirm_reread"
                            /\ proc[p].handshakeId = id)
       => handshakes'[id] = handshakes[id]]_vars

\* ----------------------------------------------------------------------
\* C30  HandshakeViewModel: single flight and release of isProcessing

\* an action of the view model ends in this step
actionEnds == Len(vm'.jobs) < Len(vm.jobs)

\* exactly one of error and success is set
oneOutcome(state) == (state.error # NULL) # (state.success # NULL)

\* C30 (single flight): at most one action of the view model is in flight,
\* and isProcessing is true while it is: a call made while isProcessing is
\* true launches nothing.
C30_SingleFlight ==
  /\ Len(vm.jobs) <= 1
  /\ vm.jobs # << >> => vm.actionState.isProcessing

\* C30 (release): every action that ends leaves isProcessing = false, and
\* no action in flight means isProcessing = false.
C30_LockReleased ==
  /\ [](vm.jobs = << >> => ~vm.actionState.isProcessing)
  /\ [][actionEnds => ~vm'.actionState.isProcessing]_vars

\* C30: initiateHandshake, claimHandshake and mintHandshake are single
\* flight, and every started action ends with isProcessing = false and
\* exactly one of error and success set, on every branch.
C30_SingleFlightOneOutcome ==
  /\ [](Len(vm.jobs) <= 1)
  /\ [](vm.jobs = << >> => ~vm.actionState.isProcessing)
  /\ [][actionEnds => /\ ~vm'.actionState.isProcessing
                      /\ oneOutcome(vm'.actionState)]_vars

====
